---- MODULE Spec2Model ----
(***************************************************************************)
(* Model of utils/csv.go of Cloudflare-Clean-IP-Scanner: the measurement   *)
(* record with its cached loss rate, the delay and loss-rate filters, the  *)
(* loss/delay sort order, the address-only exporter and the console        *)
(* reporter.                                                               *)
(*                                                                         *)
(* Numbers.  A time.Duration is modelled as an integer count of            *)
(* milliseconds.  A float32 loss rate is modelled as an integer multiple   *)
(* of 1/Scale, where Scale is a multiple of every non-zero Sended of the   *)
(* model: float32(a)/float32(b) for such small counts is the correctly     *)
(* rounded quotient a/b, distinct quotients round to distinct float32      *)
(* values and rounding keeps their order, so comparing the scaled integers *)
(* is comparing the float32 values.  1.0 is Scale, 0.5 is Scale \div 2.    *)
(***************************************************************************)
EXTENDS Integers, Sequences, FiniteSets

\* ---------------------------------------------------------------- bounds
MaxLen == 2
MaxSent == 2

Scale == 2 * MaxSent

\* ------------------------------------------------------------- constants
maxDelay == 9999
minDelay == 0
maxLossRate == Scale
defaultOutput == "result.csv"

\* ---------------------------------------------------------------- inputs
Delays == {50, 200, 300}
DelayFlags == {<<0, 9999>>, <<200, 200>>, <<-1, 200>>, <<200, 10000>>}
LossFlags == {0, Scale \div 2, Scale}
Addresses == {"1.1.1.1", "2606:4700:4700::1111"}
NilIP == "<nil>"
Outputs == {"", " ", defaultOutput}
PrintNums == {-1, 0, 1, MaxLen, 10}
NoFile == <<<<"<absent>">>>>
StaleFile == <<<<"stale">>>>

VARIABLES
    s,                \* the collection (PingDelaySet / []CloudflareIPData)
    InputMaxDelay,
    InputMinDelay,
    InputMaxLossRate,
    Output,
    PrintNum,
    op,               \* the operation that ran last
    pre,              \* the collection as it was when that operation began
    arg,              \* the record getLossRate was called on, before the call
    ret,              \* what getLossRate returned
    data,             \* what the filter returned
    env,              \* what the file system did during ExportCsv
    file,             \* the destination file: NoFile or its lines
    preFile,          \* the destination file when ExportCsv began
    attempted,        \* indices of the records whose Write was called
    logs,             \* messages logged by ExportCsv
    aborted,          \* log.Fatalf ended the process
    console,          \* what Print wrote to the console, line by line
    returned          \* history: the getLossRate calls made so far

vars == <<s, InputMaxDelay, InputMinDelay, InputMaxLossRate, Output, PrintNum,
          op, pre, arg, ret, data, env, file, preFile, attempted, logs,
          aborted, console, returned>>

\* --------------------------------------------------------------- records
\* A record as the prober builds it: the cache field is the zero value.
CloudflareIPData(ip, sended, received, delay) ==
    [IP |-> ip, Sended |-> sended, Received |-> received, Delay |-> delay,
     lossRate |-> 0, DownloadSpeed |-> 0]

NoRecord == CloudflareIPData(NilIP, 0, 0, 0)

\* What the prober hands over: no probe sent, or MaxSent probes sent and
\* none, part or all of them answered.
PingRecords ==
    UNION {{CloudflareIPData("1.1.1.1", n, r, d) :
                r \in {0, n \div 2, n}, d \in Delays} :
              n \in {0, MaxSent}}

\* The same at one delay: getLossRate does not read the delay.
MemoRecords == {r \in PingRecords : r.Delay = 50}

ExportRecords ==
    {CloudflareIPData(ip, MaxSent, r, 50) :
        ip \in Addresses \cup {NilIP}, r \in {0, MaxSent}}

SeqsUpTo(S, n) == UNION {[1..k -> S] : k \in 0..n}

\* ---------------------------------------------------------- Go arithmetic
Min(a, b) == IF a < b THEN a ELSE b

\* Integer division truncates toward zero.
GoIntDiv(a, b) == IF a >= 0 THEN a \div b ELSE -((-a) \div b)

\* float32(a) / float32(b)
F32Div(a, b) == GoIntDiv(a * Scale, b)

\* int(f) truncates toward zero.
F32ToInt(f) == GoIntDiv(f, Scale)

\* ------------------------------------------------------------ getLossRate
\* The method has a pointer receiver: the result carries the value returned
\* and the record as the call leaves it.
getLossRateStale(cf) ==
    LET r == F32Div(cf.Sended - cf.Received, cf.Sended)
    IN  IF cf.Sended = 0
        THEN [ret |-> 0, cf |-> cf]
        ELSE IF cf.lossRate = 0 /\ cf.Received = 0 /\ cf.Sended > 0
        THEN [ret |-> cf.lossRate, cf |-> [cf EXCEPT !.lossRate = r]]
        ELSE IF cf.Sended > 0
                /\ GoIntDiv(cf.Sended - cf.Received, cf.Sended)
                     # F32ToInt(cf.lossRate)
        THEN [ret |-> cf.lossRate, cf |-> [cf EXCEPT !.lossRate = r]]
        ELSE [ret |-> cf.lossRate, cf |-> cf]

getLossRate(cf) ==
    LET r == F32Div(cf.Sended - cf.Received, cf.Sended)
    IN  IF cf.Sended = 0
        THEN [ret |-> 0, cf |-> cf]
        ELSE IF cf.lossRate = 0 /\ cf.Received = 0 /\ cf.Sended > 0
        THEN [ret |-> r, cf |-> [cf EXCEPT !.lossRate = r]]
        ELSE IF cf.Sended > 0
                /\ GoIntDiv(cf.Sended - cf.Received, cf.Sended)
                     # F32ToInt(cf.lossRate)
        THEN [ret |-> r, cf |-> [cf EXCEPT !.lossRate = r]]
        ELSE [ret |-> cf.lossRate, cf |-> cf]

\* ----------------------------------------------------------------- filters
RECURSIVE FilterDelayLoopExclusive(_, _, _)
FilterDelayLoopExclusive(t, i, d) ==
    IF i > Len(t) THEN d
    ELSE LET v == t[i]
         IN  IF v.Delay >= InputMaxDelay
             THEN FilterDelayLoopExclusive(t, i + 1, d)
             ELSE IF v.Delay < InputMinDelay
             THEN FilterDelayLoopExclusive(t, i + 1, d)
             ELSE FilterDelayLoopExclusive(t, i + 1, Append(d, v))

\* The loop of the earlier revision: break at the first delay above the
\* upper bound.
RECURSIVE FilterDelayLoopBreak(_, _, _)
FilterDelayLoopBreak(t, i, d) ==
    IF i > Len(t) THEN d
    ELSE LET v == t[i]
         IN  IF v.Delay > InputMaxDelay
             THEN d
             ELSE IF v.Delay < InputMinDelay
             THEN FilterDelayLoopBreak(t, i + 1, d)
             ELSE FilterDelayLoopBreak(t, i + 1, Append(d, v))

\* for _, v := range s { ... } of FilterDelay, from index i on.
RECURSIVE FilterDelayLoop(_, _, _)
FilterDelayLoop(t, i, d) ==
    IF i > Len(t) THEN d
    ELSE LET v == t[i]
         IN  IF v.Delay > InputMaxDelay
             THEN FilterDelayLoop(t, i + 1, d)              \* continue
             ELSE IF v.Delay < InputMinDelay
             THEN FilterDelayLoop(t, i + 1, d)              \* continue
             ELSE FilterDelayLoop(t, i + 1, Append(d, v))

FilterDelayNoRangeCheck(t) ==
    IF InputMaxDelay = maxDelay /\ InputMinDelay = minDelay
    THEN t
    ELSE FilterDelayLoop(t, 1, <<>>)

FilterDelay(t) ==
    IF InputMaxDelay > maxDelay \/ InputMinDelay < minDelay
    THEN t
    ELSE IF InputMaxDelay = maxDelay /\ InputMinDelay = minDelay
    THEN t
    ELSE FilterDelayLoop(t, 1, <<>>)

RangeCopyAliased(t, i, v) == [t EXCEPT ![i] = v]

\* The loop variable of "for _, v := range s" is a copy of s[i]: a method
\* that writes through &v leaves the slice element as it was.
RangeCopy(t, i, v) == t

\* for _, v := range s { ... } of FilterLossRate, from index i on; the result
\* carries the slice iterated over and the slice built.
RECURSIVE FilterLossRateLoop(_, _, _)
FilterLossRateLoop(t, i, d) ==
    IF i > Len(t) THEN [input |-> t, data |-> d]
    ELSE LET g  == getLossRate(t[i])
             t1 == RangeCopy(t, i, g.cf)
         IN  IF g.ret > InputMaxLossRate
             THEN [input |-> t1, data |-> d]                 \* break
             ELSE FilterLossRateLoop(t1, i + 1, Append(d, g.cf))

FilterLossRate(t) ==
    IF InputMaxLossRate >= maxLossRate
    THEN [input |-> t, data |-> t]
    ELSE FilterLossRateLoop(t, 1, <<>>)

\* -------------------------------------------------------------- sort order
\* Less calls getLossRate on the slice elements themselves, so it returns
\* its verdict and the slice with both caches as the calls leave them.
Less(t, i, j) ==
    LET gi == getLossRate(t[i])
        t1 == [t EXCEPT ![i] = gi.cf]
        gj == getLossRate(t1[j])
        t2 == [t1 EXCEPT ![j] = gj.cf]
    IN  [lt |-> IF gi.ret # gj.ret THEN gi.ret < gj.ret
                ELSE t[i].Delay < t[j].Delay,
         s  |-> t2]

Bijections(n) ==
    {f \in [1..n -> 1..n] : \A a, b \in 1..n : a # b => f[a] # f[b]}

Permutations(t) == {[i \in 1..Len(t) |-> t[f[i]]] : f \in Bijections(Len(t))}

\* Less applied to every element against its neighbour: sorting two or more
\* elements compares each of them at least once.
RECURSIVE Compared(_, _)
Compared(t, i) ==
    IF i >= Len(t) THEN t ELSE Compared(Less(t, i + 1, i).s, i + 1)

\* sort.Sort over Len/Less/Swap: the elements rearranged by swaps into an
\* order in which no later element is Less than an earlier one.  sort.Sort
\* is not stable, so every such arrangement is a possible outcome.
SortOutcomes(t) ==
    {p \in Permutations(Compared(t, 1)) :
        \A i, j \in 1..Len(p) : i < j => ~Less(p, j, i).lt}

\* ---------------------------------------------------------------- exporter
noOutputEmptyOnly == Output = ""

noOutput == Output = "" \/ Output = " "

convertToIPOnlyCsvDataWithHeader(d) ==
    <<<<"IP Address">>>> \o
    [i \in 1..Len(d) |-> IF d[i].IP # NilIP THEN <<d[i].IP>> ELSE <<"N/A">>]

convertToIPOnlyCsvData(d) ==
    [i \in 1..Len(d) |-> IF d[i].IP # NilIP THEN <<d[i].IP>> ELSE <<"N/A">>]

\* encoding/csv quotes a field holding a comma, a quote, a line break or a
\* leading space, and the field \. ; no field of the model does.
fieldNeedsQuotes(f) == f = "\\."

\* One line of the file: the fields of a row as csv.Writer.Write puts them
\* between commas, ended by "\n".
CsvLine(row) ==
    [i \in 1..Len(row) |->
        IF fieldNeedsQuotes(row[i]) THEN <<"\"", row[i], "\"">> ELSE row[i]]

\* csv.Writer.WriteAll: Write every row, return at the first error; then
\* Flush.  e.failAt = k in 1..Len(rows): the Write of row k returns an error
\* (the buffer filled and the file refused it); Len(rows) + 1: the Flush does.
RECURSIVE WriteAllLoop(_, _, _, _)
WriteAllLoop(rows, i, e, done) ==
    IF i > Len(rows) THEN [attempted |-> done, err |-> e.failAt = Len(rows) + 1]
    ELSE IF e.failAt = i THEN [attempted |-> Append(done, i), err |-> TRUE]
    ELSE WriteAllLoop(rows, i + 1, e, Append(done, i))

WriteAll(rows, e) == WriteAllLoop(rows, 1, e, <<>>)

ExportCsv(d, e, f) ==
    IF noOutput \/ Len(d) = 0
    THEN [file |-> f, attempted |-> <<>>, logs |-> <<>>, aborted |-> FALSE]
    ELSE IF ~e.createOk
    THEN [file |-> f, attempted |-> <<>>,
          logs |-> <<"Failed to create file">>, aborted |-> TRUE]
    ELSE LET csvData == convertToIPOnlyCsvData(d)
             w       == WriteAll(csvData, e)
             lines   == [i \in 1..Len(csvData) |-> CsvLine(csvData[i])]
         IN  [file      |-> IF w.err THEN SubSeq(lines, 1, e.flushed) ELSE lines,
              attempted |-> w.attempted,
              logs      |-> IF w.err
                            THEN <<"Failed to write all data",
                                   "Error flushing CSV writer">>
                            ELSE <<>>,
              aborted   |-> FALSE]

\* What the file system may do to an export of n rows: refuse to create the
\* file, take every write (failAt = 0), or fail at row failAt having taken
\* the first `flushed` lines, fewer than failAt and fewer than n.
Environments(n) ==
    {[createOk |-> FALSE, failAt |-> 0, flushed |-> 0]} \cup
    {e \in [createOk : {TRUE}, failAt : 0..(n + 1), flushed : 0..n] :
        e.flushed = 0 \/ (e.flushed < e.failAt /\ e.flushed < n)}

NoEnv == [createOk |-> TRUE, failAt |-> 0, flushed |-> 0]

\* ---------------------------------------------------------------- reporter
NoPrintResult == PrintNum = 0

\* len(a) of the strings the model prints in the address column.
StrLen(a) ==
    CASE a = "1.1.1.1" -> 7
      [] a = "2606:4700:4700::1111" -> 20
      [] a = "N/A" -> 3

\* fmt.Sprintf("%.2f%%", f*100): hundredths of a percent, rounded.
Percent2(f) == <<"%.2f%%", (f * 20000 + Scale) \div (2 * Scale)>>

\* The six columns of a record; getLossRate runs on the receiver.
toString(cf) ==
    <<IF cf.IP # NilIP THEN cf.IP ELSE "N/A",
      <<"Itoa", cf.Sended>>,
      <<"Itoa", cf.Received>>,
      Percent2(getLossRate(cf).ret),
      <<"%dms", cf.Delay>>,
      <<"%.2f", cf.DownloadSpeed * 100>>>>

convertToString(d) == [i \in 1..Len(d) |-> toString(d[i])]

DisplayCountUnclamped(dateString) == PrintNum

\* displayCount := PrintNum, or len(dateString) when that is smaller.
DisplayCount(dateString) ==
    IF Len(dateString) < PrintNum THEN Len(dateString) ELSE PrintNum

\* for i := 0; i < displayCount; i++ looking for an address longer than 15:
\* "wide" at the first one (break), "narrow" when there is none, "panic"
\* when dateString[i] is past the end of the slice.
RECURSIVE IPv6Scan(_, _, _)
IPv6Scan(dateString, i, displayCount) ==
    IF i > displayCount THEN "narrow"
    ELSE IF i > Len(dateString) THEN "panic"
    ELSE IF Len(dateString[i]) > 0 /\ StrLen(dateString[i][1]) > 15 THEN "wide"
    ELSE IPv6Scan(dateString, i + 1, displayCount)

\* for i := 0; i < displayCount; i++ printing row i, onto the lines out.
RECURSIVE PrintRows(_, _, _, _, _)
PrintRows(dateString, i, displayCount, dataFormat, out) ==
    IF i > displayCount THEN out
    ELSE IF i > Len(dateString)
    THEN Append(out, <<"panic", "index out of range">>)
    ELSE IF Len(dateString[i]) = 6
    THEN PrintRows(dateString, i + 1, displayCount, dataFormat,
                   Append(out, <<"row", dataFormat, dateString[i]>>))
    ELSE PrintRows(dateString, i + 1, displayCount, dataFormat, out)

Panicked(out) == Len(out) > 0 /\ out[Len(out)][1] = "panic"

\* DownloadSpeedSet.Print: the lines it leaves on the console.
PrintConsole(t) ==
    IF NoPrintResult THEN <<>>
    ELSE IF Len(t) <= 0
    THEN <<<<"info", "The number of complete test results IP is 0">>>>
    ELSE LET dateString   == convertToString(t)
             displayCount == DisplayCount(dateString)
             scan         == IF displayCount > 0
                             THEN IPv6Scan(dateString, 1, displayCount)
                             ELSE "narrow"
             headFormat   == IF scan = "wide" THEN "%-40s" ELSE "%-15s"
             dataFormat   == IF scan = "wide" THEN "%-42s" ELSE "%-17s"
             rows         == PrintRows(dateString, 1, displayCount, dataFormat,
                                       <<<<"head", headFormat>>>>)
         IN  IF displayCount = 0 /\ Len(t) > 0 THEN <<>>
             ELSE IF scan = "panic"
             THEN <<<<"panic", "index out of range">>>>
             ELSE IF Panicked(rows) THEN rows
             ELSE IF ~noOutput
             THEN Append(rows, <<"info", "written to", Output>>)
             ELSE rows

\* ------------------------------------------------------------ call history
\* The identity of a record: the PingData it points to, which every copy of
\* the record shares.
Key(cf) == <<cf.IP, cf.Sended, cf.Received, cf.Delay>>

\* The history is kept by the specification that starts it empty; the
\* others start it at NoHistory and it stays there.
NoHistory == {[key |-> <<>>, ret |-> 0, cache |-> 0, again |-> FALSE]}

\* One getLossRate call on cf: the value returned, the cache as the call
\* leaves it, and whether the record had been called before.
Call(cf, h) ==
    LET g == getLossRate(cf)
    IN  [key |-> Key(cf), ret |-> g.ret, cache |-> g.cf.lossRate,
         again |-> \E c \in h : c.key = Key(cf)]

\* The history h after getLossRate calls on the records cfs[i], cfs[i+1], ...
RECURSIVE Recorded(_, _, _)
Recorded(h, cfs, i) ==
    IF h = NoHistory \/ i > Len(cfs) THEN h
    ELSE Recorded(h \cup {Call(cfs[i], h)}, cfs, i + 1)

\* The records Less calls getLossRate on while t is sorted, as each call
\* finds them: every element as it was, then every element again.
SortCalls(t) == IF Len(t) < 2 THEN <<>> ELSE t \o Compared(t, 1)

\* The records FilterLossRate calls getLossRate on: those it kept and the
\* one it stopped at.
FilterLossRateCalls(t) ==
    IF InputMaxLossRate >= maxLossRate THEN <<>>
    ELSE SubSeq(t, 1, Min(Len(FilterLossRate(t).data) + 1, Len(t)))

\* The records Print calls getLossRate on, through convertToString.
PrintCalls(t) == IF NoPrintResult \/ Len(t) <= 0 THEN <<>> ELSE t

\* ------------------------------------------------------------------- state
Flags ==
    /\ \E f \in DelayFlags : InputMinDelay = f[1] /\ InputMaxDelay = f[2]
    /\ InputMaxLossRate \in LossFlags

Idle ==
    /\ op = "none"
    /\ pre = <<>>
    /\ arg = NoRecord
    /\ ret = 0
    /\ data = <<>>
    /\ env = NoEnv
    /\ attempted = <<>>
    /\ logs = <<>>
    /\ aborted = FALSE
    /\ console = <<>>

\* The ranking pipeline: a batch from the prober, thresholds from the flags.
Init ==
    /\ s \in SeqsUpTo(PingRecords, MaxLen)
    /\ Flags
    /\ Output = defaultOutput
    /\ PrintNum = 10
    /\ file = NoFile
    /\ preFile = NoFile
    /\ returned = NoHistory
    /\ Idle

\* The ranking pipeline with the getLossRate calls recorded: a batch from
\* the prober, the delay bounds at their defaults.
InitMemo ==
    /\ s \in SeqsUpTo(MemoRecords, MaxLen)
    /\ InputMinDelay = minDelay
    /\ InputMaxDelay = maxDelay
    /\ InputMaxLossRate \in LossFlags
    /\ Output = defaultOutput
    /\ PrintNum = 10
    /\ file = NoFile
    /\ preFile = NoFile
    /\ returned = {}
    /\ Idle

\* The exporter and the reporter: a batch of any addresses, any destination,
\* any print limit, the destination absent or left over from an earlier run.
InitExport ==
    /\ s \in SeqsUpTo(ExportRecords, MaxLen)
    /\ InputMinDelay = minDelay
    /\ InputMaxDelay = maxDelay
    /\ InputMaxLossRate = maxLossRate
    /\ Output \in Outputs
    /\ PrintNum \in PrintNums
    /\ file \in {NoFile, StaleFile}
    /\ preFile = file
    /\ returned = NoHistory
    /\ Idle

flagVars == <<InputMaxDelay, InputMinDelay, InputMaxLossRate, Output, PrintNum>>
exportVars == <<env, file, preFile, attempted, logs, aborted, console>>

\* ----------------------------------------------------------------- actions
\* s[i].getLossRate()
GetLossRate ==
    \E i \in 1..Len(s) :
        LET g == getLossRate(s[i])
        IN  /\ op' = "getLossRate"
            /\ pre' = s
            /\ arg' = s[i]
            /\ ret' = g.ret
            /\ s' = [s EXCEPT ![i] = g.cf]
            /\ data' = <<>>
            /\ returned' = Recorded(returned, <<s[i]>>, 1)
            /\ UNCHANGED <<flagVars, exportVars>>

\* sort.Sort(s)
Sort ==
    \E p \in SortOutcomes(s) :
        /\ op' = "Sort"
        /\ pre' = s
        /\ s' = p
        /\ arg' = NoRecord
        /\ ret' = 0
        /\ data' = <<>>
        /\ returned' = Recorded(returned, SortCalls(s), 1)
        /\ UNCHANGED <<flagVars, exportVars>>

\* data = s.FilterDelay()
DoFilterDelay ==
    /\ op' = "FilterDelay"
    /\ pre' = s
    /\ data' = FilterDelay(s)
    /\ s' = s
    /\ arg' = NoRecord
    /\ ret' = 0
    /\ UNCHANGED <<flagVars, exportVars, returned>>

\* data = s.FilterLossRate()
DoFilterLossRate ==
    LET r == FilterLossRate(s)
    IN  /\ op' = "FilterLossRate"
        /\ pre' = s
        /\ data' = r.data
        /\ s' = r.input
        /\ arg' = NoRecord
        /\ ret' = 0
        /\ returned' = Recorded(returned, FilterLossRateCalls(s), 1)
        /\ UNCHANGED <<flagVars, exportVars>>

\* sort.Sort(s); data = s.FilterDelay().FilterLossRate()
DoPipeline ==
    \E p \in SortOutcomes(s) :
        LET d == FilterDelay(p)
        IN  /\ op' = "Pipeline"
            /\ pre' = s
            /\ s' = p
            /\ data' = FilterLossRate(d).data
            /\ arg' = NoRecord
            /\ ret' = 0
            /\ returned' = Recorded(returned,
                                    SortCalls(s) \o FilterLossRateCalls(d), 1)
            /\ UNCHANGED <<flagVars, exportVars>>

\* ExportCsv(s), once, at the end of a run.
DoExportCsv ==
    /\ op = "none"
    /\ \E e \in Environments(Len(s)) :
        LET r == ExportCsv(s, e, file)
        IN  /\ op' = "ExportCsv"
            /\ pre' = s
            /\ env' = e
            /\ preFile' = file
            /\ file' = r.file
            /\ attempted' = r.attempted
            /\ logs' = r.logs
            /\ aborted' = r.aborted
            /\ UNCHANGED <<s, arg, ret, data, flagVars, console, returned>>

\* DownloadSpeedSet(s).Print(), once, after the export if there is one.
DoPrint ==
    /\ op \in {"none", "ExportCsv"}
    /\ ~aborted
    /\ op' = "Print"
    /\ pre' = s
    /\ console' = PrintConsole(s)
    /\ returned' = Recorded(returned, PrintCalls(s), 1)
    /\ UNCHANGED <<s, arg, ret, data, flagVars, env, file, preFile, attempted,
                   logs, aborted>>

Next == GetLossRate \/ Sort \/ DoFilterDelay \/ DoFilterLossRate

Spec == Init /\ [][Next]_vars

SpecMemo == InitMemo /\ [][Next]_vars

\* A run of the ranking pipeline on a batch from the prober.
SpecPipeline == Init /\ [][DoPipeline]_vars

NextExport == DoExportCsv \/ DoPrint

SpecExport == InitExport /\ [][NextExport]_vars

\* ------------------------------------------------------------- properties
\* (Sended - Received) / Sended of a record with Sended > 0, as a multiple
\* of 1/Scale.
TrueLossRate(r) == ((r.Sended - r.Received) * Scale) \div r.Sended

AllSent(t) == \A i \in 1..Len(t) : t[i].Sended > 0

\* The records of a sequence, whatever their caches hold.
Uncached(t) == [i \in 1..Len(t) |-> [t[i] EXCEPT !.lossRate = 0]]

SortedByTrueLoss(t) ==
    \A i, j \in 1..Len(t) : i < j => TrueLossRate(t[i]) <= TrueLossRate(t[j])

SortedByDelay(t) == \A i, j \in 1..Len(t) : i < j => t[i].Delay <= t[j].Delay

\* The longest prefix of t whose true loss rates are all within the ceiling.
TruePrefix(t) ==
    LET K == {k \in 0..Len(t) :
                 \A i \in 1..k : TrueLossRate(t[i]) <= InputMaxLossRate}
    IN  SubSeq(t, 1, CHOOSE k \in K : \A m \in K : m <= k)

InWindow(v) == InputMinDelay <= v.Delay /\ v.Delay <= InputMaxDelay

FilteringDelay ==
    /\ InputMaxDelay <= maxDelay
    /\ InputMinDelay >= minDelay
    /\ ~(InputMaxDelay = maxDelay /\ InputMinDelay = minDelay)

\* The lines an export of t writes when nothing fails: one per record, the
\* address alone.
AddressLines(t) == [i \in 1..Len(t) |-> <<t[i].IP>>]

IsPrefix(a, b) == Len(a) <= Len(b) /\ a = SubSeq(b, 1, Len(a))

BlankOutput == Output = "" \/ Output = " "

\* C1: for a record with Sended > 0 and 0 <= Received <= Sended, getLossRate
\* returns exactly (Sended - Received) / Sended, partial loss on a fresh
\* record included.
C1_GetLossRateIsRatio ==
    (op = "getLossRate" /\ arg.Sended > 0 /\ arg.Received <= arg.Sended)
        => ret = TrueLossRate(arg)

\* C2: for a record with Sended = 0, getLossRate returns 1.0.
C2_NothingSentIsTotalLoss ==
    (op = "getLossRate" /\ arg.Sended = 0) => ret = Scale

\* C3: with InputMaxLossRate < 1.0, FilterLossRate of a sequence sorted
\* ascending by true loss rate returns the longest prefix of records whose
\* true loss rate is <= InputMaxLossRate, in input order.
C3_FilterLossRateKeepsTruePrefix ==
    (/\ op = "FilterLossRate"
     /\ InputMaxLossRate < maxLossRate
     /\ AllSent(pre)
     /\ SortedByTrueLoss(pre))
        => Uncached(data) = Uncached(TruePrefix(pre))

\* C4: after sorting, every adjacent pair (a, b) has a lower true loss rate
\* in a, or the same true loss rate and Delay(a) <= Delay(b).
C4_SortOrdersByTrueLoss ==
    (op = "Sort" /\ AllSent(s))
        => \A i \in 1..(Len(s) - 1) :
              \/ TrueLossRate(s[i]) < TrueLossRate(s[i + 1])
              \/ /\ TrueLossRate(s[i]) = TrueLossRate(s[i + 1])
                 /\ s[i].Delay <= s[i + 1].Delay

\* C5: with legal bounds that are not both the defaults, FilterDelay of a
\* sequence sorted ascending by delay returns exactly the records with
\* InputMinDelay <= Delay <= InputMaxDelay, in input order.
C5_FilterDelayKeepsWindow ==
    (op = "FilterDelay" /\ FilteringDelay /\ SortedByDelay(pre))
        => data = SelectSeq(pre, InWindow)

\* A delay-sorted input of which the filter kept a record on the upper bound
\* and dropped another.
C5_Witness ==
    /\ op = "FilterDelay"
    /\ FilteringDelay
    /\ SortedByDelay(pre)
    /\ Len(data) > 0
    /\ Len(data) < Len(pre)
    /\ \E i \in 1..Len(data) : data[i].Delay = InputMaxDelay

\* C6: FilterDelay returns its input unchanged when both bounds are the
\* defaults, or InputMaxDelay > 9999ms, or InputMinDelay < 0.
C6_FilterDelayNoOp ==
    (/\ op = "FilterDelay"
     /\ \/ InputMinDelay = 0 /\ InputMaxDelay = maxDelay
        \/ InputMaxDelay > maxDelay
        \/ InputMinDelay < 0)
        => data = pre

\* An out-of-range lower bound with a record above the upper bound still in
\* the result.
C6_Witness ==
    /\ op = "FilterDelay"
    /\ InputMinDelay < 0
    /\ \E i \in 1..Len(data) : data[i].Delay > InputMaxDelay

\* C7: FilterDelay and FilterLossRate leave their input as it was: the same
\* records in the same order, the cached lossRate included.
C7_FiltersLeaveInput ==
    op \in {"FilterDelay", "FilterLossRate"} => s = pre

\* FilterLossRate examined a record whose getLossRate call writes the cache.
C7_Witness ==
    /\ op = "FilterLossRate"
    /\ InputMaxLossRate < maxLossRate
    /\ Len(pre) > 0
    /\ getLossRate(pre[1]).cf # pre[1]
    /\ s = pre

\* C8: ExportCsv of N >= 1 records to a non-blank destination, nothing
\* failing, writes exactly N lines, line i being the address of record i and
\* nothing else, with no header line.
C8_ExportWritesAddresses ==
    (/\ op = "ExportCsv"
     /\ Len(pre) >= 1
     /\ ~BlankOutput
     /\ env.createOk
     /\ env.failAt = 0)
        => /\ file # NoFile
           /\ Len(file) = Len(pre)
           /\ \A i \in 1..Len(pre) :
                 pre[i].IP # NilIP => file[i] = <<pre[i].IP>>

\* Two records with different addresses exported over a left-over file.
C8_Witness ==
    /\ op = "ExportCsv"
    /\ Len(pre) = 2
    /\ pre[1].IP # NilIP /\ pre[2].IP # NilIP /\ pre[1].IP # pre[2].IP
    /\ ~BlankOutput
    /\ env.createOk
    /\ env.failAt = 0
    /\ preFile = StaleFile
    /\ file = AddressLines(pre)

\* The destination exists and holds nothing but lines of this export.
Truncated == file # NoFile /\ IsPrefix(file, convertToIPOnlyCsvData(pre))

ExportIsNoOp ==
    /\ file = preFile
    /\ attempted = <<>>
    /\ logs = <<>>
    /\ ~aborted

\* C9 as stated: ExportCsv creates or truncates no file and reports no error
\* when Output is "" or " " or the collection is empty; in every other case
\* the destination file is created/truncated.
C9_Original ==
    op = "ExportCsv"
        => IF BlankOutput \/ Len(pre) = 0 THEN ExportIsNoOp ELSE Truncated

\* C9 amended: ExportCsv creates or truncates no file and reports no error
\* when Output is "" or " " or the collection is empty; in every other case
\* it tries to create the destination, which is then created/truncated, or,
\* when the creation fails, left as it was with the process aborted.
C9_ExportNoOpOrCreate ==
    op = "ExportCsv"
        => IF BlankOutput \/ Len(pre) = 0 THEN ExportIsNoOp
           ELSE IF env.createOk THEN Truncated /\ ~aborted
           ELSE aborted /\ file = preFile /\ attempted = <<>>

\* A non-empty collection exported to " " with a left-over file in place.
C9_Witness ==
    /\ op = "ExportCsv"
    /\ Output = " "
    /\ Len(pre) > 0
    /\ preFile = StaleFile
    /\ file = StaleFile

\* C10: when the write of record k fails, the failure is logged, the process
\* goes on and the write of every later record is still attempted.
C10_WriteFailureSkipsOneRecord ==
    (/\ op = "ExportCsv"
     /\ ~BlankOutput
     /\ env.createOk
     /\ env.failAt \in 1..Len(pre))
        => /\ logs # <<>>
           /\ ~aborted
           /\ attempted = [i \in 1..Len(pre) |-> i]

\* The first k rows of the table Print renders for t.
FrontRows(t, k) == [i \in 1..k |-> toString(t[i])]

\* The data rows on the console, in the order printed.
ConsoleRows ==
    LET rowLines == SelectSeq(console, LAMBDA l : l[1] = "row")
    IN  [i \in 1..Len(rowLines) |-> rowLines[i][3]]

\* C11: Print writes nothing at all when PrintNum = 0; for a non-empty
\* collection and PrintNum > 0 it renders exactly min(PrintNum, len) data
\* rows, those of the front of the collection in order, and never indexes
\* past the end.
C11_PrintClampsRows ==
    op = "Print"
        => /\ PrintNum = 0 => console = <<>>
           /\ (PrintNum > 0 /\ Len(pre) > 0)
                 => /\ ~Panicked(console)
                    /\ ConsoleRows = FrontRows(pre, Min(PrintNum, Len(pre)))

\* A limit above the size of a non-empty collection: every record rendered.
C11_Witness ==
    /\ op = "Print"
    /\ Len(pre) > 0
    /\ PrintNum > Len(pre)
    /\ Len(ConsoleRows) = Len(pre)

\* The elements of t before the first one whose delay is above the upper
\* bound (all of t when there is none).
BeforeFirstAbove(t) ==
    LET above == {i \in 1..Len(t) : t[i].Delay > InputMaxDelay}
    IN  IF above = {} THEN t
        ELSE SubSeq(t, 1, (CHOOSE i \in above : \A j \in above : i <= j) - 1)

\* a is b with some elements left out.
IsSubSeq(a, b) ==
    \E f \in [1..Len(a) -> 1..Len(b)] :
        /\ \A i, j \in 1..Len(a) : i < j => f[i] < f[j]
        /\ \A i \in 1..Len(a) : a[i] = b[f[i]]

\* C12 as stated: when filtering is active, FilterDelay stops at the first
\* element whose delay exceeds InputMaxDelay: no record positioned after it
\* appears in the result, for any input, sorted or not.
C12_Original ==
    (op = "FilterDelay" /\ FilteringDelay)
        => IsSubSeq(data, BeforeFirstAbove(pre))

\* C12 amended: when filtering is active, FilterDelay skips an element whose
\* delay exceeds InputMaxDelay and goes on scanning: for any input, sorted
\* or not, the result is every record of the input with InputMinDelay <=
\* Delay <= InputMaxDelay, in input order, also those positioned after a
\* record above the upper bound.
C12_FilterDelayScansAll ==
    (op = "FilterDelay" /\ FilteringDelay)
        => /\ \A i \in 1..Len(data) : InWindow(data[i])
           /\ IsSubSeq(data, pre)
           /\ Len(data) = Cardinality({i \in 1..Len(pre) : InWindow(pre[i])})

\* A record inside the window kept although it comes after one above it.
C12_Witness ==
    /\ op = "FilterDelay"
    /\ FilteringDelay
    /\ \E i, j \in 1..Len(pre) :
          i < j /\ pre[i].Delay > InputMaxDelay /\ InWindow(pre[j])
    /\ Len(data) > 0

\* C13: the loss rate of a record is memoized: every getLossRate call on a
\* record returns the same value, and every call leaves the same value in
\* the cache as the first one did, a computed 0.0 included.
C13_LossRateMemoized ==
    \A a, b \in returned :
        a.key = b.key => a.ret = b.ret /\ a.cache = b.cache

\* A record without loss called a first time and then again, 0.0 both times.
C13_Witness ==
    \E a, b \in returned :
        /\ a.key = b.key
        /\ ~a.again /\ b.again
        /\ a.key[2] > 0 /\ a.key[3] = a.key[2]
        /\ b.ret = 0 /\ b.cache = 0

\* A clean record: inside the delay window, true loss rate within the
\* ceiling.
Clean(v) == InWindow(v) /\ TrueLossRate(v) <= InputMaxLossRate

LegalThresholds ==
    /\ minDelay <= InputMinDelay
    /\ InputMaxDelay <= maxDelay
    /\ 0 <= InputMaxLossRate /\ InputMaxLossRate <= maxLossRate

\* C14: sorting by the Loss/Delay order and then applying FilterDelay and
\* FilterLossRate keeps exactly the clean records (delay in the window and
\* (Sended - Received)/Sended <= InputMaxLossRate), in Loss/Delay order.
C14_PipelineKeepsCleanRecords ==
    (op = "Pipeline" /\ LegalThresholds /\ AllSent(pre))
        => /\ Uncached(data) = Uncached(SelectSeq(s, Clean))
           /\ \A i \in 1..(Len(data) - 1) :
                 \/ TrueLossRate(data[i]) < TrueLossRate(data[i + 1])
                 \/ /\ TrueLossRate(data[i]) = TrueLossRate(data[i + 1])
                    /\ data[i].Delay <= data[i + 1].Delay
====
